---- MODULE Spec2Model ----
(***************************************************************************)
(* bok: a content-addressed, hash-chained ledger store.                    *)
(*                                                                         *)
(* The model follows src/src/ledger.rs (Ledger), src/src/entry/serde.rs,   *)
(* src/src/entry/line.rs, src/src/entry/entry_struct.rs (the Entry codec)  *)
(* and src/src/tee_writer.rs (TeeWriter).  Strings are sequences of UTF-8  *)
(* bytes, files are byte sequences, and the directory is a set of named    *)
(* files.  SHA-256 and gzip are library code: the digest is a random       *)
(* oracle (the table sha: deterministic, collision free, 64 hex            *)
(* characters wide) and a gzip stream is its magic header followed by the  *)
(* payload.                                                                *)
(***************************************************************************)
EXTENDS Integers, Sequences, FiniteSets, TLC

VARIABLES
    dir,        \* location.is_dir()
    objdir,     \* location/objects exists
    head_file,  \* content of location/HEAD, or NoFile
    objects,    \* location/objects: file name -> file content
    open,       \* the Ledger value of the process: "none", or the constructor
                \* that made it ("init", "from_dir")
    head,       \* Ledger.head
    head_hash,  \* Ledger.head_hash
    hash_map,   \* Ledger.hash_map
    pc,         \* position of the running Ledger operation
    pending,    \* locals of the running Ledger operation
    sha,        \* the digest oracle: hashed bytes -> hex digest
    added,      \* history: the successful add_entry calls, oldest first
    written,    \* history: the names of the object files created, oldest first
    result,     \* what the last finished operation returned
    input       \* the value the codec operations are applied to; with two
                \* writers, the Ledger value of the second process

vars == <<dir, objdir, head_file, objects, open, head, head_hash, hash_map,
          pc, pending, sha, added, written, result, input>>

\* ------------------------------------------------------------------ bounds

\* add_entry calls in one run
MaxAdds == 2

\* lines of an entry given to the codec
MaxLines == 2

\* ------------------------------------------------------- program constants

\* width of previous_entry on the wire (serde.rs: read!(previous_entry(64)))
HashWidth == 64

\* characters of a hash that short_hash keeps (serde.rs: [..6])
ShortWidth == 6

\* width of previous_entry as Entry::from_bytes of entry.rs reads it
LegacyWidth == 32

\* ------------------------------------------------------------------- bytes

NoFile == <<"NoFile">>
None == [some |-> FALSE, val |-> <<>>]
Some(v) == [some |-> TRUE, val |-> v]

Ok(v) == [ok |-> TRUE, val |-> v]
Err(kind) == [ok |-> FALSE, err |-> kind]

Min(a, b) == IF a < b THEN a ELSE b

\* F of the value v, with v evaluated once
Let(v, F(_)) == CHOOSE y \in {F(x) : x \in {v}} : TRUE

\* the ? operator: F of the result r when r is Ok, the error r otherwise
Try(r, F(_)) == CHOOSE y \in {IF x.ok THEN F(x) ELSE x : x \in {r}} : TRUE

RECURSIVE ULe(_, _)
\* uN::to_le_bytes: n >= 0 in w bytes, least significant first
ULe(n, w) == IF w = 0 THEN <<>> ELSE <<n % 256>> \o ULe(n \div 256, w - 1)

Complement(bytes) == [i \in 1..Len(bytes) |-> 255 - bytes[i]]

\* iN::to_le_bytes: two's complement in w bytes
to_le_bytes(n, w) == IF n >= 0 THEN ULe(n, w) ELSE Complement(ULe(-n - 1, w))

RECURSIVE UFromLe(_)
UFromLe(bytes) ==
    IF bytes = <<>> THEN 0
    ELSE IF \A i \in 1..Len(bytes) : bytes[i] = 0 THEN 0
    ELSE bytes[1] + 256 * UFromLe(Tail(bytes))

\* uN::from_le_bytes / iN::from_le_bytes
from_le_bytes(bytes, signed) ==
    IF signed /\ bytes[Len(bytes)] >= 128
    THEN -UFromLe(Complement(bytes)) - 1
    ELSE UFromLe(bytes)

RECURSIVE Concat(_)
Concat(seqs) == IF seqs = <<>> THEN <<>> ELSE Head(seqs) \o Concat(Tail(seqs))

starts_with(s, prefix) ==
    /\ Len(prefix) <= Len(s)
    /\ SubSeq(s, 1, Len(prefix)) = prefix

IsCont(b) == b >= 128 /\ b <= 191

RECURSIVE from_utf8_ok(_)
\* String::from_utf8 accepts exactly the well-formed UTF-8 byte sequences
from_utf8_ok(b) ==
    IF b = <<>> THEN TRUE
    ELSE LET c == b[1] n == Len(b) IN
         IF c < 128 THEN from_utf8_ok(Tail(b))
         ELSE IF c >= 194 /\ c <= 223
              THEN n >= 2 /\ IsCont(b[2]) /\ from_utf8_ok(SubSeq(b, 3, n))
         ELSE IF c >= 224 /\ c <= 239
              THEN /\ n >= 3 /\ IsCont(b[2]) /\ IsCont(b[3])
                   /\ (c = 224 => b[2] >= 160)
                   /\ (c = 237 => b[2] <= 159)
                   /\ from_utf8_ok(SubSeq(b, 4, n))
         ELSE IF c >= 240 /\ c <= 244
              THEN /\ n >= 4 /\ IsCont(b[2]) /\ IsCont(b[3]) /\ IsCont(b[4])
                   /\ (c = 240 => b[2] >= 144)
                   /\ (c = 244 => b[2] <= 143)
                   /\ from_utf8_ok(SubSeq(b, 5, n))
         ELSE FALSE

\* ------------------------------------------------------------ the writers

\* A writer that takes at most cap bytes of each write call (all of them when
\* all is set) and has taken data so far.
Writer(all, cap) == [all |-> all, cap |-> cap, data |-> <<>>]

\* Vec<u8>, Cursor<Vec<u8>>, io::empty(), Sha256: every byte offered is taken
Greedy == Writer(TRUE, 0)

writer_write(w, buf) == IF w.all THEN Len(buf) ELSE Min(w.cap, Len(buf))

\* A variant of TeeWriter::write that offers the whole buffer to the second
\* writer, not only the part the first one took
TeeWriter_write_whole(tee, buf) ==
    LET n1 == writer_write(tee.writer1, buf)
        n2 == writer_write(tee.writer2, buf)
    IN  [n |-> Min(n1, n2),
         tee |-> [writer1 |-> [tee.writer1 EXCEPT !.data = @ \o SubSeq(buf, 1, n1)],
                  writer2 |-> [tee.writer2 EXCEPT !.data = @ \o SubSeq(buf, 1, n2)]]]

\* TeeWriter::write
TeeWriter_write(tee, buf) ==
    LET n1 == writer_write(tee.writer1, buf)
        n2 == writer_write(tee.writer2, SubSeq(buf, 1, n1))
    IN  [n |-> Min(n1, n2),
         tee |-> [writer1 |-> [tee.writer1 EXCEPT !.data = @ \o SubSeq(buf, 1, n1)],
                  writer2 |-> [tee.writer2 EXCEPT !.data = @ \o SubSeq(buf, 1, n2)]]]

RECURSIVE write_all(_, _)
\* std::io::Write::write_all over a TeeWriter: offer the rest until all of it
\* is taken; a write that takes nothing is the error WriteZero
write_all(tee, buf) ==
    IF buf = <<>> THEN [ok |-> TRUE, tee |-> tee]
    ELSE LET r == TeeWriter_write(tee, buf) IN
         IF r.n = 0 THEN [ok |-> FALSE, tee |-> r.tee]
         ELSE write_all(r.tee, SubSeq(buf, r.n + 1, Len(buf)))

RECURSIVE write_each(_, _)
\* the write_all calls of one serialize, in order, stopping at the first error
write_each(tee, bufs) ==
    IF bufs = <<>> THEN [ok |-> TRUE, tee |-> tee]
    ELSE LET r == write_all(tee, Head(bufs)) IN
         IF r.ok THEN write_each(r.tee, Tail(bufs)) ELSE r

\* ---------------------------------------------------------------- the codec

Origin(timestamp, year) ==
    [kind |-> "Origin", timestamp |-> timestamp, year |-> year]

Record(timestamp, event_date, name, description, lines, previous_entry) ==
    [kind |-> "Entry", timestamp |-> timestamp, event_date |-> event_date,
     name |-> name, description |-> description, lines |-> lines,
     previous_entry |-> previous_entry]

EntryLine(account, amount, side, description) ==
    [account |-> account, amount |-> amount, side |-> side,
     description |-> description]

\* DateTime<Utc>: whole seconds since the epoch and the nanoseconds within
DateTime(secs, nanos) == [secs |-> secs, nanos |-> nanos]

\* DateTime::timestamp
timestamp_secs(t) == t.secs

\* DateTime::with_nanosecond(0)
with_nanosecond_0(t) == [t EXCEPT !.nanos = 0]

\* NaiveDate is kept as its day number; from_num_days_from_ce_opt is None
\* outside chrono's NaiveDate::MIN .. NaiveDate::MAX
from_num_days_from_ce_ok(days) == days >= -95746129 /\ days <= 95745399

\* the write_all calls of EntryLine::serialize, in order
EntryLine_serialize(line) ==
    << ULe(Len(line.account), 4),
       ULe(line.amount, 8),
       << IF line.side = "Credit" THEN 0 ELSE 1 >>,
       << IF line.description.some THEN 1 ELSE 0 >>,
       line.account >>
    \o IF line.description.some
       THEN << ULe(Len(line.description.val), 4), line.description.val >>
       ELSE << >>

RECURSIVE lines_serialize(_)
lines_serialize(lines) ==
    IF lines = <<>> THEN <<>>
    ELSE EntryLine_serialize(Head(lines)) \o lines_serialize(Tail(lines))

\* A variant of Entry::serialize that leaves the event date out
serialize_writes_undated(e) ==
    IF e.kind = "Origin"
    THEN << <<0>>, ULe(e.year, 8), to_le_bytes(timestamp_secs(e.timestamp), 8) >>
    ELSE << <<1>>,
            to_le_bytes(timestamp_secs(e.timestamp), 8),
            ULe(Len(e.name), 4),
            ULe(Len(e.description), 4),
            e.name,
            e.description,
            ULe(Len(e.lines), 4) >>
         \o lines_serialize(e.lines)
         \o << e.previous_entry >>

\* the write_all calls of Entry::serialize, in order
serialize_writes(e) ==
    IF e.kind = "Origin"
    THEN << <<0>>, ULe(e.year, 8), to_le_bytes(timestamp_secs(e.timestamp), 8) >>
    ELSE << <<1>>,
            to_le_bytes(e.event_date, 4),
            to_le_bytes(timestamp_secs(e.timestamp), 8),
            ULe(Len(e.name), 4),
            ULe(Len(e.description), 4),
            e.name,
            e.description,
            ULe(Len(e.lines), 4) >>
         \o lines_serialize(e.lines)
         \o << e.previous_entry >>

\* the serialized form of e: what a writer that takes every byte receives
canonical(e) == Concat(serialize_writes(e))

\* the two magic bytes that open every gzip stream
GzMagic == <<31, 139>>

\* GzEncoder: the stream written for a payload
gz_encode(payload) == GzMagic \o payload

\* Entry::serialize into output.  ok: no write failed; zipped: the bytes the
\* GzEncoder took; out: the bytes that reach output; hashed: the bytes the
\* digest took (the hash returned is their digest)
serialize(e, output) ==
    Let(write_each([writer1 |-> output, writer2 |-> Greedy], serialize_writes(e)),
        LAMBDA r : [ok |-> r.ok,
                    zipped |-> r.tee.writer1.data,
                    out |-> gz_encode(r.tee.writer1.data),
                    hashed |-> r.tee.writer2.data])

\* read! (read.rs): the next n bytes, or UnexpectedEof when fewer are left
read_bytes(bytes, pos, n) ==
    IF Len(bytes) < pos + n THEN Err("UnexpectedEof")
    ELSE [ok |-> TRUE, val |-> SubSeq(bytes, pos + 1, pos + n), pos |-> pos + n]

\* read!(field(type) from reader using buffer): a little-endian number
read_num(bytes, pos, n, signed) ==
    Try(read_bytes(bytes, pos, n), LAMBDA r :
        [r EXCEPT !.val = from_le_bytes(r.val, signed)])

\* read!(field(n) as String from reader): n bytes of well-formed UTF-8
read_string(bytes, pos, n) ==
    Try(read_bytes(bytes, pos, n), LAMBDA r :
        IF from_utf8_ok(r.val) THEN r ELSE Err("InvalidData"))

\* A variant of the match that takes every byte: 0x00, or else as 0x01
read_flag_any(bytes, pos) ==
    Try(read_num(bytes, pos, 1, FALSE), LAMBDA r :
        IF r.val = 0 THEN r ELSE [r EXCEPT !.val = 1])

\* the match on a side byte or a description flag: 0x00, 0x01 or InvalidData
read_flag(bytes, pos) ==
    Try(read_num(bytes, pos, 1, FALSE), LAMBDA r :
        IF r.val \in {0, 1} THEN r ELSE Err("InvalidData"))

\* EntryLine::deserialize from position pos of bytes
EntryLine_deserialize(bytes, pos) ==
    Try(read_num(bytes, pos, 4, FALSE), LAMBDA account_len :
    Try(read_num(bytes, account_len.pos, 8, FALSE), LAMBDA amount :
    Try(read_flag(bytes, amount.pos), LAMBDA side_byte :
    Try(read_flag(bytes, side_byte.pos), LAMBDA desc_flag :
    Try(read_string(bytes, desc_flag.pos, account_len.val), LAMBDA account :
    Let(IF side_byte.val = 0 THEN "Credit" ELSE "Debit", LAMBDA side :
    IF desc_flag.val = 0
    THEN [ok |-> TRUE, pos |-> account.pos,
          val |-> EntryLine(account.val, amount.val, side, None)]
    ELSE
    Try(read_num(bytes, account.pos, 4, FALSE), LAMBDA desc_len :
    Try(read_string(bytes, desc_len.pos, desc_len.val), LAMBDA desc :
    [ok |-> TRUE, pos |-> desc.pos,
     val |-> EntryLine(account.val, amount.val, side, Some(desc.val))]))))))))

RECURSIVE lines_deserialize(_, _, _, _)
\* the loop 'for _ in 0..lines_count' of Entry::deserialize
lines_deserialize(bytes, pos, count, lines) ==
    IF count = 0 THEN [ok |-> TRUE, val |-> lines, pos |-> pos]
    ELSE Try(EntryLine_deserialize(bytes, pos), LAMBDA line :
             lines_deserialize(bytes, line.pos, count - 1, Append(lines, line.val)))

\* the bytes Entry::deserialize decodes: the payload of a gzip stream, or,
\* without the gzip header, the file as it is
gz_decode(file) ==
    IF starts_with(file, GzMagic)
    THEN SubSeq(file, Len(GzMagic) + 1, Len(file))
    ELSE file

\* the Origin arm of Entry::deserialize
deserialize_origin(bytes, pos) ==
    Try(read_num(bytes, pos, 8, FALSE), LAMBDA year :
    Try(read_num(bytes, year.pos, 8, TRUE), LAMBDA epoch_secs :
    Ok(Origin(DateTime(epoch_secs.val, 0), year.val))))

\* the Entry arm of Entry::deserialize, previous_entry read as width bytes
deserialize_entry(bytes, pos, width) ==
    Try(read_num(bytes, pos, 4, TRUE), LAMBDA date_days :
    IF ~from_num_days_from_ce_ok(date_days.val) THEN Err("InvalidData") ELSE
    Try(read_num(bytes, date_days.pos, 8, TRUE), LAMBDA epoch_secs :
    Try(read_num(bytes, epoch_secs.pos, 4, FALSE), LAMBDA name_len :
    Try(read_num(bytes, name_len.pos, 4, FALSE), LAMBDA desc_len :
    Try(read_string(bytes, desc_len.pos, name_len.val), LAMBDA name :
    Try(read_string(bytes, name.pos, desc_len.val), LAMBDA description :
    Try(read_num(bytes, description.pos, 4, FALSE), LAMBDA lines_count :
    Try(lines_deserialize(bytes, lines_count.pos, lines_count.val, <<>>), LAMBDA lines :
    Try(read_string(bytes, lines.pos, width), LAMBDA previous_entry :
    Ok(Record(DateTime(epoch_secs.val, 0), date_days.val, name.val,
              description.val, lines.val, previous_entry.val)))))))))))

\* Entry::deserialize with previous_entry read as width bytes
deserialize_width(file, width) ==
    Let(gz_decode(file), LAMBDA bytes :
    Try(read_num(bytes, 0, 1, FALSE), LAMBDA discriminant :
    IF discriminant.val = 0 THEN deserialize_origin(bytes, discriminant.pos)
    ELSE IF discriminant.val = 1
         THEN deserialize_entry(bytes, discriminant.pos, width)
    ELSE Err("InvalidData")))

\* A variant of Entry::deserialize that reads previous_entry as from_bytes of
\* entry.rs does
deserialize_legacy(file) == deserialize_width(file, LegacyWidth)

\* Entry::deserialize
deserialize(file) == deserialize_width(file, HashWidth)

\* -------------------------------------------------------------- the digest

Range(f) == {f[x] : x \in DOMAIN f}

\* the hex character of the i-th binary digit of n: 'a' or 'b'
HexChar(n, i) == IF (n \div (2 ^ i)) % 2 = 0 THEN 97 ELSE 98

\* a digest as encode_hex gives it: HashWidth hex characters; the digests of
\* the pool differ in their first three characters
Digest(n) ==
    [i \in 1..HashWidth |->
        IF i = 1 THEN HexChar(n, 2)
        ELSE IF i = 2 THEN HexChar(n, 1)
        ELSE IF i = 3 THEN HexChar(n, 0)
        ELSE 48]

\* the digests SHA-256 may give to the inputs of one run
DigestPool == {Digest(n) : n \in 0..(MaxAdds + 1)}

\* a digest that no hashed input has been given
Unhashed == [i \in 1..HashWidth |-> 102]

\* Sha256::finalize().encode_hex() for an input: the digest it was given, or,
\* for an input not hashed before, any digest of the pool after the ones
\* given out (none when the pool is used up: the run hashes no further input)
digests(bytes) ==
    IF bytes \in DOMAIN sha THEN {sha[bytes]}
    ELSE {Digest(n) : n \in {k \in 0..(MaxAdds + 1) :
                               \A j \in k..(MaxAdds + 1) : Digest(j) \notin Range(sha)}}

\* the digest of bytes in an operation that leaves the oracle alone
digest_of(bytes) == IF bytes \in DOMAIN sha THEN sha[bytes] ELSE Unhashed

\* Entry::short_hash: serialize(empty())?[..6]
short_hash(e) == SubSeq(digest_of(serialize(e, Greedy).hashed), 1, ShortWidth)

\* ------------------------------------------------------------ the ledger

NoEntry == [kind |-> "None"]
NoPending == [op |-> "none"]
NoResult == [op |-> "none"]
NoInput == [kind |-> "None"]
EmptyMap == <<>>

\* A variant of the object write that keeps the new object only
write_file_alone(files, name, contents) == (name :> contents)

\* what a fs::write that fails after it has opened the file may leave of
\* contents in it: nothing, or the first half
torn(contents) == {SubSeq(contents, 1, k) : k \in {0, Len(contents) \div 2}}

\* fs::write(path, contents) into a directory: the file is created, or an
\* existing file of that name gets the contents
write_file(files, name, contents) == (name :> contents) @@ files

\* A variant of Entry::new that keeps the nanoseconds of the clock's reading
Entry_new_nanos(date, name, description, lines, previous_entry, now) ==
    Record(now, date, name, description, lines, previous_entry)

\* Entry::new, as an entry of the clock's reading now
Entry_new(date, name, description, lines, previous_entry, now) ==
    Record(with_nanosecond_0(now), date, name, description, lines, previous_entry)

\* Entry::from_file of the object directory's file name
Entry_from_file(name) ==
    IF ~objdir \/ name \notin DOMAIN objects THEN Err("NotFound")
    ELSE deserialize(objects[name])

\* A variant of find_hash that matches whole names only
find_hash_exact(hash) ==
    IF ~objdir THEN Err("NotFound")
    ELSE Ok({s \in DOMAIN objects : s = hash})

\* Ledger::find_hash: the file names of the object directory that start with hash
find_hash(hash) ==
    IF ~objdir THEN Err("NotFound")
    ELSE Ok({s \in DOMAIN objects : starts_with(s, hash)})

HEAD == <<72, 69, 65, 68>>

\* A variant of from_ref that takes one of several matches
from_ref_any(entry_ref) ==
    IF entry_ref = HEAD THEN Ok(head_hash)
    ELSE Try(find_hash(entry_ref), LAMBDA found :
             IF found.val = {} THEN Err("NotFound")
             ELSE Ok(CHOOSE entry_hash \in found.val : TRUE))

\* Ledger::from_ref
from_ref(entry_ref) ==
    IF entry_ref = HEAD THEN Ok(head_hash)
    ELSE Try(find_hash(entry_ref), LAMBDA found :
             IF found.val = {} THEN Err("NotFound")
             ELSE IF Cardinality(found.val) = 1
                  THEN Ok(CHOOSE entry_hash \in found.val : TRUE)
             ELSE Err("TooManyLinks"))

\* A variant of get_entry whose cache holds the last entry loaded only
get_entry_forgetful(map, hash) ==
    IF hash \in DOMAIN map THEN [ok |-> TRUE, val |-> map[hash], map |-> map]
    ELSE Let(Entry_from_file(hash), LAMBDA file :
             IF file.ok
             THEN [ok |-> TRUE, val |-> file.val, map |-> (hash :> file.val)]
             ELSE [ok |-> FALSE, err |-> file.err, map |-> map])

\* Ledger::get_entry on the cache map: the entry, and the cache afterwards
get_entry(map, hash) ==
    IF hash \in DOMAIN map THEN [ok |-> TRUE, val |-> map[hash], map |-> map]
    ELSE Let(Entry_from_file(hash), LAMBDA file :
             IF file.ok
             THEN [ok |-> TRUE, val |-> file.val, map |-> (hash :> file.val) @@ map]
             ELSE [ok |-> FALSE, err |-> file.err, map |-> map])

\* longest description show_short prints in full (show.rs: max_len)
MaxDescLen == 60

\* bytes of the UTF-8 character that starts with byte c
CharLen(c) == IF c < 128 THEN 1 ELSE IF c < 224 THEN 2 ELSE IF c < 240 THEN 3 ELSE 4

RECURSIVE take_chars(_, _)
\* s.chars().take(n).collect()
take_chars(s, n) ==
    IF n = 0 \/ s = <<>> THEN <<>>
    ELSE LET k == Min(CharLen(s[1]), Len(s)) IN
         SubSeq(s, 1, k) \o take_chars(SubSeq(s, k + 1, Len(s)), n - 1)

Dots == <<46, 46, 46>>

\* Entry::show_short: the fields of the line it prints
show_short(e) ==
    IF e.kind = "Origin"
    THEN [kind |-> "Origin", year |-> e.year, hash |-> short_hash(e)]
    ELSE [kind |-> "Entry", event_date |-> e.event_date, name |-> e.name,
          desc |-> IF Len(e.description) > MaxDescLen
                   THEN take_chars(e.description, MaxDescLen) \o Dots
                   ELSE e.description,
          hash |-> short_hash(e)]

\* how a show_log that fails ends: the error, the text so far
log_err(err, out, visited, map) ==
    [ok |-> FALSE, err |-> err, out |-> out, visited |-> visited, map |-> map]

RECURSIVE show_log_from(_, _, _, _, _)
\* the loop of Ledger::show_log, run for at most fuel entries: out is the
\* text, line by line, visited the hashes read, map the cache afterwards
show_log_from(map, next_hash, out, visited, fuel) ==
    IF fuel = 0 THEN log_err("Diverges", out, visited, map)
    ELSE
    Let(get_entry(map, next_hash), LAMBDA got :
    IF ~got.ok THEN log_err(got.err, out, visited, got.map)
    ELSE
    Let(Append(out, show_short(got.val)), LAMBDA shown :
    Let(Append(visited, next_hash), LAMBDA seen :
    IF got.val.kind = "Origin"
    THEN [ok |-> TRUE, out |-> shown, visited |-> seen, map |-> got.map]
    ELSE
    Let(from_ref(got.val.previous_entry), LAMBDA next :
    IF ~next.ok THEN log_err(next.err, shown, seen, got.map)
    ELSE show_log_from(got.map, next.val, shown, seen, fuel - 1)))))

\* A variant of show_log that lists from the Ledger's HEAD whatever it is given
show_log_head(hash) ==
    show_log_from(hash_map, head_hash, <<>>, <<>>, Cardinality(DOMAIN objects) + 1)

\* Ledger::show_log
show_log(hash) ==
    show_log_from(hash_map, hash, <<>>, <<>>, Cardinality(DOMAIN objects) + 1)

\* ---------------------------------------------------------------- inputs

Years == {2025}

\* readings of the clock (Utc::now()): seconds and nanoseconds
Nows == {DateTime(1746057600, 0), DateTime(1746057600, 500)}

\* event dates, as days from 0001-01-01: 2025-05-01
Dates == {739372}

\* "A1", the name main.rs records every entry under
Names == {<<65, 49>>}

Descriptions == {<<100>>}

Debit100 == EntryLine(<<49, 48, 48>>, 100, "Debit", None)
Credit200 == EntryLine(<<50, 48, 48>>, 100, "Credit", None)

LineLists == {<<>>, <<Debit100, Credit200>>}

\* the references tried: HEAD, prefixes of the pool's digests, every stored
\* hash in full, a prefix no digest has, and the empty reference
Refs ==
    {HEAD, <<>>, <<97>>, <<97, 97>>, <<97, 98>>, <<97, 97, 97>>, <<98>>, <<99>>}
    \cup DOMAIN objects

\* ------------------------------------------------------------------- Init

Init ==
    /\ dir = FALSE
    /\ objdir = FALSE
    /\ head_file = NoFile
    /\ objects = EmptyMap
    /\ open = "none"
    /\ head = NoEntry
    /\ head_hash = <<>>
    /\ hash_map = EmptyMap
    /\ pc = "idle"
    /\ pending = NoPending
    /\ sha = EmptyMap
    /\ added = <<>>
    /\ written = <<>>
    /\ result = NoResult
    /\ input = NoInput

fs == <<dir, objdir, head_file, objects>>
mem == <<open, head, head_hash, hash_map>>
hist == <<added, written>>

\* ------------------------------------------------------------ Ledger::init

\* A variant of init that does not look at the location first
location_is_dir_unchecked == FALSE

\* location.is_dir()
location_is_dir == dir

\* init on a location that is a directory: the error, nothing written
Ledger_init_exists ==
    /\ pc = "idle" /\ open = "none" /\ location_is_dir
    /\ result' = [op |-> "init", ok |-> FALSE, err |-> "DirectoryNotEmpty"]
    /\ UNCHANGED <<fs, mem, pc, pending, sha, hist, input>>

\* create_dir_all(&location); the Origin is serialized into buffer
Ledger_init_create_dir ==
    /\ pc = "idle" /\ open = "none" /\ ~location_is_dir
    /\ \E year \in Years, now \in Nows :
         \E origin \in {Origin(now, year)} :
         \E ser \in {serialize(origin, Greedy)} :
             \E hash \in digests(ser.hashed) :
               /\ sha' = (ser.hashed :> hash) @@ sha
               /\ pending' = [op |-> "init", head |-> origin, hash |-> hash,
                              buffer |-> ser.out]
    /\ dir' = TRUE
    /\ pc' = "init_dir"
    /\ result' = NoResult
    /\ UNCHANGED <<objdir, head_file, objects, mem, hist, input>>

\* write(&head_path, &hash)
Ledger_init_write_head ==
    /\ pc = "init_dir"
    /\ head_file' = pending.hash
    /\ pc' = "init_head"
    /\ UNCHANGED <<dir, objdir, objects, mem, pending, sha, hist, result, input>>

\* create_dir_all(&object_path)
Ledger_init_create_objects ==
    /\ pc = "init_head"
    /\ objdir' = TRUE
    /\ pc' = "init_objects"
    /\ UNCHANGED <<dir, head_file, objects, mem, pending, sha, hist, result, input>>

\* write(object_path.join(&hash), buffer); Ok(Self { .. })
Ledger_init_write_object ==
    /\ pc = "init_objects"
    /\ objects' = write_file(objects, pending.hash, pending.buffer)
    /\ open' = "init"
    /\ head' = pending.head
    /\ head_hash' = pending.hash
    /\ hash_map' = EmptyMap
    /\ pc' = "idle"
    /\ pending' = NoPending
    /\ result' = [op |-> "init", ok |-> TRUE, hash |-> pending.hash]
    /\ written' = Append(written, pending.hash)
    /\ UNCHANGED <<dir, objdir, head_file, sha, added, input>>

\* -------------------------------------------------------- Ledger::from_dir

\* Ledger::from_dir: the Ledger it returns, or the error
from_dir ==
    IF ~dir THEN Err("NotADirectory")
    ELSE IF head_file = NoFile THEN Err("NotFound")
    ELSE IF ~from_utf8_ok(head_file) THEN Err("InvalidData")
    ELSE Try(Entry_from_file(head_file), LAMBDA file :
             Ok([head |-> file.val, head_hash |-> head_file]))

Ledger_from_dir ==
    /\ pc = "idle" /\ open = "none"
    /\ \E r \in {from_dir} :
       IF r.ok
       THEN /\ open' = "from_dir"
            /\ head' = r.val.head
            /\ head_hash' = r.val.head_hash
            /\ hash_map' = EmptyMap
            /\ result' = [op |-> "from_dir", ok |-> TRUE, hash |-> r.val.head_hash]
       ELSE /\ result' = [op |-> "from_dir", ok |-> FALSE, err |-> r.err]
            /\ UNCHANGED mem
    /\ UNCHANGED <<fs, pc, pending, sha, hist, input>>

\* what a process leaves behind when it ends: the files
ProcessGone ==
    /\ open' = "none"
    /\ head' = NoEntry
    /\ head_hash' = <<>>
    /\ hash_map' = EmptyMap
    /\ pc' = "idle"
    /\ pending' = NoPending
    /\ result' = NoResult
    /\ UNCHANGED <<fs, sha, hist, input>>

\* The process ends between two operations (main.rs returns).
process_ends ==
    /\ pc = "idle" /\ open # "none"
    /\ ProcessGone

\* The process dies between two storage writes of init or add_entry.
crash ==
    /\ pc # "idle"
    /\ ProcessGone

\* ------------------------------------------------------- Ledger::add_entry

\* A variant of add_entry that links every Record to the first object
add_entry_previous_first == IF written = <<>> THEN head_hash ELSE written[1]

\* A variant of add_entry that links a Record by the short hash
add_entry_previous_short == SubSeq(head_hash, 1, ShortWidth)

\* the previous_entry that add_entry gives the new Record: &self.head_hash
add_entry_previous == head_hash

\* A variant of add_entry that files the object under the short hash
object_name_short(hash) == SubSeq(hash, 1, ShortWidth)

\* the file name of self.object_path.join(&hash)
object_name(hash) == hash

\* Entry::new, serialize into buffer, create_dir_all(&self.object_path),
\* write(path, buffer)
Ledger_add_entry_write_object ==
    /\ pc = "idle" /\ open # "none"
    /\ Len(added) < MaxAdds
    /\ \E name \in Names, description \in Descriptions, lines \in LineLists,
          date \in Dates, now \in Nows :
         \E new_head \in {Entry_new(date, name, description, lines,
                                     add_entry_previous, now)} :
         \E ser \in {serialize(new_head, Greedy)} :
             \E hash \in digests(ser.hashed) :
               /\ sha' = (ser.hashed :> hash) @@ sha
               /\ objects' = write_file(objects, object_name(hash), ser.out)
               /\ written' = IF object_name(hash) \in DOMAIN objects THEN written
                             ELSE Append(written, object_name(hash))
               /\ pending' = [op |-> "add_entry", head |-> new_head, hash |-> hash,
                              buffer |-> ser.out]
    /\ objdir' = TRUE
    /\ pc' = "add_object"
    /\ result' = NoResult
    /\ UNCHANGED <<dir, head_file, mem, added, input>>

\* A variant of the end of add_entry that leaves self.head_hash as it was
Ledger_add_entry_write_head_stale ==
    /\ pc = "add_object"
    /\ head_file' = pending.hash
    /\ head' = pending.head
    /\ added' = Append(added, [hash |-> pending.hash, entry |-> pending.head,
                               before |-> head_hash])
    /\ pc' = "idle"
    /\ pending' = NoPending
    /\ result' = [op |-> "add_entry", ok |-> TRUE, hash |-> pending.hash,
                  before |-> head_hash]
    /\ UNCHANGED <<dir, objdir, objects, open, head_hash, hash_map, sha, written, input>>

\* write(&self.head_path, &hash); self.head_hash = hash; self.head = new_head;
\* Ok(EntryHash(..))
Ledger_add_entry_write_head ==
    /\ pc = "add_object"
    /\ head_file' = pending.hash
    /\ head_hash' = pending.hash
    /\ head' = pending.head
    /\ added' = Append(added, [hash |-> pending.hash, entry |-> pending.head,
                               before |-> head_hash])
    /\ pc' = "idle"
    /\ pending' = NoPending
    /\ result' = [op |-> "add_entry", ok |-> TRUE, hash |-> pending.hash,
                  before |-> head_hash]
    /\ UNCHANGED <<dir, objdir, objects, open, hash_map, sha, written, input>>

\* ------------------------------------------------------ the read operations

Ledger_from_ref ==
    /\ pc = "idle" /\ open # "none"
    /\ \E entry_ref \in Refs :
         \E r \in {from_ref(entry_ref)} :
         result' = IF r.ok
                   THEN [op |-> "from_ref", ref |-> entry_ref, ok |-> TRUE, hash |-> r.val]
                   ELSE [op |-> "from_ref", ref |-> entry_ref, ok |-> FALSE, err |-> r.err]
    /\ UNCHANGED <<fs, mem, pc, pending, sha, hist, input>>

\* main.rs Show: from_ref, then get_entry of the hash it gave
Ledger_get_entry ==
    /\ pc = "idle" /\ open # "none"
    /\ \E entry_ref \in Refs :
         \E r \in {from_ref(entry_ref)} :
         /\ r.ok
         /\ \E got \in {get_entry(hash_map, r.val)} :
            /\ hash_map' = got.map
            /\ result' = IF got.ok
                         THEN [op |-> "get_entry", hash |-> r.val, ok |-> TRUE,
                               entry |-> got.val, by |-> open]
                         ELSE [op |-> "get_entry", hash |-> r.val, ok |-> FALSE,
                               err |-> got.err]
    /\ UNCHANGED <<fs, open, head, head_hash, pc, pending, sha, hist, input>>

\* main.rs Log: from_ref, then show_log of the hash it gave
Ledger_show_log ==
    /\ pc = "idle" /\ open # "none"
    /\ \E entry_ref \in Refs :
         \E r \in {from_ref(entry_ref)} :
         /\ r.ok
         /\ \E log \in {show_log(r.val)} :
            /\ hash_map' = log.map
            /\ result' = [op |-> "show_log", ref |-> entry_ref, hash |-> r.val,
                          ok |-> log.ok, out |-> log.out, visited |-> log.visited]
    /\ UNCHANGED <<fs, open, head, head_hash, pc, pending, sha, hist, input>>

Next ==
    \/ Ledger_init_exists
    \/ Ledger_init_create_dir
    \/ Ledger_init_write_head
    \/ Ledger_init_create_objects
    \/ Ledger_init_write_object
    \/ Ledger_from_dir
    \/ process_ends
    \/ crash
    \/ Ledger_add_entry_write_object
    \/ Ledger_add_entry_write_head
    \/ Ledger_from_ref

\* every operation of a Ledger, with the storage writes of init and add_entry
\* as single steps, processes that end between operations and die between
\* writes, and references resolved
Spec == Init /\ [][Next]_vars

NextLog ==
    \/ Ledger_init_exists
    \/ Ledger_init_create_dir
    \/ Ledger_init_write_head
    \/ Ledger_init_create_objects
    \/ Ledger_init_write_object
    \/ Ledger_from_dir
    \/ process_ends
    \/ Ledger_add_entry_write_object
    \/ Ledger_add_entry_write_head
    \/ Ledger_get_entry
    \/ Ledger_show_log

\* the operations of a Ledger in processes that run every operation to its
\* end, with entries fetched and logs listed
SpecLog == Init /\ [][NextLog]_vars

\* ------------------------------------------ add_entry with failing storage

\* how an add_entry that fails returns: the error of the storage call
add_entry_err == [op |-> "add_entry", ok |-> FALSE, err |-> "StorageFailure"]

\* create_dir_all(&self.object_path)? fails: nothing was written
Ledger_add_entry_create_dir_fails ==
    /\ pc = "idle" /\ open # "none"
    /\ result' = add_entry_err
    /\ UNCHANGED <<fs, mem, pc, pending, sha, hist, input>>

\* write(path, buffer)? fails: before the file was opened, or after, leaving
\* the file with part of the buffer
Ledger_add_entry_write_object_fails ==
    /\ pc = "idle" /\ open # "none"
    /\ Len(added) < MaxAdds
    /\ \E name \in Names, description \in Descriptions, lines \in LineLists,
          date \in Dates, now \in Nows :
         \E new_head \in {Entry_new(date, name, description, lines,
                                     add_entry_previous, now)} :
         \E ser \in {serialize(new_head, Greedy)} :
             \E hash \in digests(ser.hashed) :
               /\ sha' = (ser.hashed :> hash) @@ sha
               /\ \/ UNCHANGED <<objects, written>>
                  \/ \E part \in torn(ser.out) :
                       /\ objects' = write_file(objects, object_name(hash), part)
                       /\ written' = IF object_name(hash) \in DOMAIN objects
                                     THEN written
                                     ELSE Append(written, object_name(hash))
    /\ objdir' = TRUE
    /\ result' = add_entry_err
    /\ UNCHANGED <<dir, head_file, mem, pc, pending, added, input>>

\* write(&self.head_path, &hash)? fails: before the HEAD file was opened, or
\* after, leaving the file with part of the hash
Ledger_add_entry_write_head_fails ==
    /\ pc = "add_object"
    /\ \/ head_file' = head_file
       \/ head_file' \in torn(pending.hash)
    /\ pc' = "idle"
    /\ pending' = NoPending
    /\ result' = add_entry_err
    /\ UNCHANGED <<dir, objdir, objects, mem, sha, hist, input>>

NextFail ==
    \/ Ledger_init_exists
    \/ Ledger_init_create_dir
    \/ Ledger_init_write_head
    \/ Ledger_init_create_objects
    \/ Ledger_init_write_object
    \/ Ledger_from_dir
    \/ process_ends
    \/ Ledger_add_entry_write_object
    \/ Ledger_add_entry_write_head
    \/ Ledger_add_entry_create_dir_fails
    \/ Ledger_add_entry_write_object_fails
    \/ Ledger_add_entry_write_head_fails

\* the operations of a Ledger over storage whose calls may fail in add_entry
SpecFail == Init /\ [][NextFail]_vars

\* get_entry of an EntryHash that a Ledger of another directory gave: no
\* object of this directory has that name
Ledger_get_entry_foreign ==
    /\ pc = "idle" /\ open # "none"
    /\ \E got \in {get_entry(hash_map, Unhashed)} :
         /\ hash_map' = got.map
         /\ result' = IF got.ok
                      THEN [op |-> "get_entry", hash |-> Unhashed, ok |-> TRUE,
                            entry |-> got.val, by |-> open]
                      ELSE [op |-> "get_entry", hash |-> Unhashed, ok |-> FALSE,
                            err |-> got.err]
    /\ UNCHANGED <<fs, open, head, head_hash, pc, pending, sha, hist, input>>

NextCache ==
    \/ Ledger_init_exists
    \/ Ledger_init_create_dir
    \/ Ledger_init_write_head
    \/ Ledger_init_create_objects
    \/ Ledger_init_write_object
    \/ Ledger_from_dir
    \/ process_ends
    \/ Ledger_add_entry_write_object
    \/ Ledger_add_entry_write_head
    \/ Ledger_get_entry
    \/ Ledger_get_entry_foreign
    \/ Ledger_show_log

\* the operations of a Ledger in processes that run every operation to its
\* end, with entries fetched by hashes of this and of another directory and
\* logs listed
SpecCache == Init /\ [][NextCache]_vars

\* ------------------------------------------------------------ two writers

\* the second process before it has a Ledger
NoLedger ==
    [kind |-> "Ledger", open |-> FALSE, head |-> NoEntry, head_hash |-> <<>>,
     pc |-> "idle", pending |-> NoPending]

InitTwo ==
    /\ dir = FALSE
    /\ objdir = FALSE
    /\ head_file = NoFile
    /\ objects = EmptyMap
    /\ open = "none"
    /\ head = NoEntry
    /\ head_hash = <<>>
    /\ hash_map = EmptyMap
    /\ pc = "idle"
    /\ pending = NoPending
    /\ sha = EmptyMap
    /\ added = <<>>
    /\ written = <<>>
    /\ result = NoResult
    /\ input = NoLedger

\* Ledger::from_dir in the second process
Second_from_dir ==
    /\ ~input.open
    /\ \E r \in {from_dir} :
         /\ r.ok
         /\ input' = [input EXCEPT !.open = TRUE, !.head = r.val.head,
                                   !.head_hash = r.val.head_hash]
    /\ UNCHANGED <<fs, mem, pc, pending, sha, hist, result>>

\* the second process ends between two operations
Second_ends ==
    /\ input.open /\ input.pc = "idle"
    /\ input' = NoLedger
    /\ UNCHANGED <<fs, mem, pc, pending, sha, hist, result>>

\* A variant of add_entry in the second process that goes on to the HEAD
\* write without the object written
Second_add_entry_skips_object ==
    /\ input.open /\ input.pc = "idle"
    /\ Len(added) < MaxAdds
    /\ \E name \in Names, description \in Descriptions, lines \in LineLists,
          date \in Dates, now \in Nows :
         \E new_head \in {Entry_new(date, name, description, lines,
                                     input.head_hash, now)} :
         \E ser \in {serialize(new_head, Greedy)} :
             \E hash \in digests(ser.hashed) :
               /\ sha' = (ser.hashed :> hash) @@ sha
               /\ input' = [input EXCEPT !.pc = "add_object",
                              !.pending = [op |-> "add_entry", head |-> new_head,
                                           hash |-> hash, buffer |-> ser.out]]
    /\ UNCHANGED <<fs, mem, pc, pending, hist, result>>

\* add_entry in the second process: Entry::new, serialize into buffer,
\* create_dir_all(&self.object_path), write(path, buffer)
Second_add_entry_write_object ==
    /\ input.open /\ input.pc = "idle"
    /\ Len(added) < MaxAdds
    /\ \E name \in Names, description \in Descriptions, lines \in LineLists,
          date \in Dates, now \in Nows :
         \E new_head \in {Entry_new(date, name, description, lines,
                                     input.head_hash, now)} :
         \E ser \in {serialize(new_head, Greedy)} :
             \E hash \in digests(ser.hashed) :
               /\ sha' = (ser.hashed :> hash) @@ sha
               /\ objects' = write_file(objects, object_name(hash), ser.out)
               /\ written' = IF object_name(hash) \in DOMAIN objects THEN written
                             ELSE Append(written, object_name(hash))
               /\ input' = [input EXCEPT !.pc = "add_object",
                              !.pending = [op |-> "add_entry", head |-> new_head,
                                           hash |-> hash, buffer |-> ser.out]]
    /\ objdir' = TRUE
    /\ UNCHANGED <<dir, head_file, mem, pc, pending, added, result>>

\* add_entry in the second process: write(&self.head_path, &hash);
\* self.head_hash = hash; self.head = new_head
Second_add_entry_write_head ==
    /\ input.open /\ input.pc = "add_object"
    /\ head_file' = input.pending.hash
    /\ added' = Append(added, [hash |-> input.pending.hash,
                               entry |-> input.pending.head,
                               before |-> input.head_hash])
    /\ input' = [input EXCEPT !.head_hash = input.pending.hash,
                              !.head = input.pending.head,
                              !.pc = "idle", !.pending = NoPending]
    /\ UNCHANGED <<dir, objdir, objects, mem, pc, pending, sha, written, result>>

NextTwo ==
    \/ Ledger_init_exists
    \/ Ledger_init_create_dir
    \/ Ledger_init_write_head
    \/ Ledger_init_create_objects
    \/ Ledger_init_write_object
    \/ Ledger_from_dir
    \/ process_ends
    \/ Ledger_add_entry_write_object
    \/ Ledger_add_entry_write_head
    \/ Second_from_dir
    \/ Second_ends
    \/ Second_add_entry_write_object
    \/ Second_add_entry_write_head

\* two processes with a Ledger each on one directory, every storage write of
\* add_entry a step of its own
SpecTwo == InitTwo /\ [][NextTwo]_vars

\* --------------------------------------------------- the codec on its own

\* lines with and without a description, with an empty and a two-byte
\* account, with the smallest and the largest amount of the tests
LineNone == EntryLine(<<49, 48, 48>>, 100, "Debit", None)
LineSome == EntryLine(<<195, 169>>, 9999999, "Credit", Some(<<102, 101, 101>>))
LineEmpty == EntryLine(<<>>, 0, "Credit", Some(<<>>))

LinePool == {LineNone, LineSome, LineEmpty}

RECURSIVE SeqsUpTo(_, _)
\* the sequences of at most n members of S
SeqsUpTo(S, n) ==
    IF n = 0 THEN {<<>>}
    ELSE SeqsUpTo(S, n - 1)
         \cup {Append(q, x) : q \in {p \in SeqsUpTo(S, n - 1) : Len(p) = n - 1}, x \in S}

\* timestamps of whole seconds with event dates, after and before the epoch
\* and the year 1
CodecTimes == {<<DateTime(1746057600, 0), 739372>>, <<DateTime(-1, 0), -365>>}

\* names with descriptions: both empty, and two bytes with a two-byte character
CodecTexts == {<<<<>>, <<>>>>, <<<<65, 49>>, <<195, 169, 33>>>>}

\* the valid entries the codec is applied to: previous_entry is a digest,
\* timestamps are whole seconds
CodecEntries ==
    {Origin(t[1], year) : t \in CodecTimes, year \in {0, 2025}}
    \cup {Record(t[1], t[2], text[1], text[2], lines, previous) :
            t \in CodecTimes, text \in CodecTexts,
            lines \in SeqsUpTo(LinePool, MaxLines),
            previous \in {Digest(1)}}

\* the outputs serialize is given: one that takes every byte (a Vec, a
\* Cursor, io::empty()), and ones that take one or three bytes of each write
Sinks == {Greedy, Writer(FALSE, 1), Writer(FALSE, 3)}

InitCodec ==
    /\ dir = FALSE
    /\ objdir = FALSE
    /\ head_file = NoFile
    /\ objects = EmptyMap
    /\ open = "none"
    /\ head = NoEntry
    /\ head_hash = <<>>
    /\ hash_map = EmptyMap
    /\ pc = "idle"
    /\ pending = NoPending
    /\ sha = EmptyMap
    /\ added = <<>>
    /\ written = <<>>
    /\ result = [op |-> "none", hashes |-> {}, outputs |-> {}]
    /\ input \in CodecEntries

\* entry.serialize(output): the hash, with every hash returned and every
\* output written so far
Entry_serialize ==
    /\ \E output \in Sinks :
       \E ser \in {serialize(input, output)} :
       \E hash \in digests(ser.hashed) :
          /\ ser.ok
          /\ sha' = (ser.hashed :> hash) @@ sha
          /\ result' = [op |-> "serialize", output |-> output, out |-> ser.out,
                        hash |-> hash, hashes |-> result.hashes \cup {hash},
                        outputs |-> result.outputs \cup {output}]
    /\ UNCHANGED <<fs, mem, pc, pending, hist, input>>

\* entry.short_hash()
Entry_short_hash ==
    /\ \E ser \in {serialize(input, Greedy)} :
       \E hash \in digests(ser.hashed) :
          /\ sha' = (ser.hashed :> hash) @@ sha
          /\ result' = [op |-> "short_hash", short |-> SubSeq(hash, 1, ShortWidth),
                        hashes |-> result.hashes, outputs |-> result.outputs]
    /\ UNCHANGED <<fs, mem, pc, pending, hist, input>>

\* Entry::deserialize of the bytes the last serialize wrote
Entry_deserialize ==
    /\ result.op = "serialize"
    /\ result' = [op |-> "deserialize", de |-> deserialize(result.out),
                  hashes |-> result.hashes, outputs |-> result.outputs]
    /\ UNCHANGED <<fs, mem, pc, pending, sha, hist, input>>

NextCodec ==
    \/ Entry_serialize
    \/ Entry_short_hash
    \/ Entry_deserialize

\* the codec applied to every valid entry of the bounds
SpecCodec == InitCodec /\ [][NextCodec]_vars

\* ------------------------------------ the codec on out-of-range enum bytes

\* the write_all calls of Entry::serialize that come before the lines
FixedWrites == 8

\* the bytes of a line before its side byte: account_len and amount
SideOffset == 12

\* where line i of the Record e starts in its serialized form
line_start(e, i) ==
    Len(Concat(SubSeq(serialize_writes(e), 1, FixedWrites)
               \o lines_serialize(SubSeq(e.lines, 1, i - 1))))

\* the bytes of the serialized form of e that Entry::deserialize and
\* EntryLine::deserialize match against 0x00 and 0x01, as indices
enum_bytes(e) ==
    {[what |-> "discriminant", line |-> 0, index |-> 1]}
    \cup IF e.kind = "Origin" THEN {}
         ELSE {[what |-> "side", line |-> i,
                index |-> line_start(e, i) + SideOffset + 1] :
                  i \in 1..Len(e.lines)}
              \cup {[what |-> "desc_flag", line |-> i,
                     index |-> line_start(e, i) + SideOffset + 2] :
                       i \in 1..Len(e.lines)}

\* byte values that are neither 0x00 nor 0x01
BadBytes == {2, 31, 255}

\* Entry::deserialize of a serialized entry, compressed or not, in which one
\* matched byte is as it was written or was replaced by a value out of
\* range; each input is decoded once
Entry_deserialize_corrupt ==
    /\ result.op = "none"
    /\ \E at \in enum_bytes(input), gz \in BOOLEAN :
         \E byte \in BadBytes \cup {canonical(input)[at.index]} :
         \E bytes \in {[canonical(input) EXCEPT ![at.index] = byte]} :
           result' = [op |-> "deserialize", at |-> at, byte |-> byte, gz |-> gz,
                      was |-> canonical(input)[at.index],
                      de |-> deserialize(IF gz THEN gz_encode(bytes) ELSE bytes)]
    /\ UNCHANGED <<fs, mem, pc, pending, sha, hist, input>>

InitEnum ==
    /\ dir = FALSE
    /\ objdir = FALSE
    /\ head_file = NoFile
    /\ objects = EmptyMap
    /\ open = "none"
    /\ head = NoEntry
    /\ head_hash = <<>>
    /\ hash_map = EmptyMap
    /\ pc = "idle"
    /\ pending = NoPending
    /\ sha = EmptyMap
    /\ added = <<>>
    /\ written = <<>>
    /\ result = [op |-> "none"]
    /\ input \in CodecEntries

NextEnum ==
    \/ Entry_deserialize_corrupt

\* the decoder applied to every valid entry of the bounds with one matched
\* byte replaced
SpecEnum == InitEnum /\ [][NextEnum]_vars

\* ------------------------------------------ the codec of entry.rs on its own

\* Entry::Origin { year } of entry.rs
Origin_rs(year) == [kind |-> "Origin", year |-> year]

\* Entry::create_new of entry.rs
Entry_create_new(name, description, lines, previous_entry) ==
    [kind |-> "Entry", name |-> name, description |-> description,
     lines |-> lines, previous_entry |-> previous_entry]

\* Entry::serialize of entry.rs into a Vec: the bytes written
entry_rs_serialize(e) ==
    IF e.kind = "Origin"
    THEN Concat(<< <<0>>, ULe(e.year, 8) >>)
    ELSE Concat(<< <<1>>,
                   ULe(Len(e.name), 4),
                   ULe(Len(e.description), 4),
                   e.name,
                   e.description,
                   ULe(Len(e.lines), 4) >>
                \o lines_serialize(e.lines)
                \o << e.previous_entry >>)

\* bytes[cursor..]
slice_from(bytes, cursor) == SubSeq(bytes, cursor + 1, Len(bytes))

\* fewest bytes EntryLine::from_bytes takes for a line: account_len, amount,
\* side and description flag
LineHeader == 14

\* the match on bytes[cursor] for a side byte or a description flag
match_flag(bytes, cursor) ==
    IF bytes[cursor + 1] \in {0, 1}
    THEN [ok |-> TRUE, val |-> bytes[cursor + 1], pos |-> cursor + 1]
    ELSE Err("InvalidData")

\* A variant of EntryLine::from_bytes that leaves the four bytes of the
\* description's length out of the bytes consumed
EntryLine_from_bytes_short(bytes) ==
    IF Len(bytes) < LineHeader THEN Err("UnexpectedEof") ELSE
    Try(read_num(bytes, 0, 4, FALSE), LAMBDA account_len :
    Try(read_num(bytes, account_len.pos, 8, FALSE), LAMBDA amount :
    Try(match_flag(bytes, amount.pos), LAMBDA side_byte :
    Try(match_flag(bytes, side_byte.pos), LAMBDA desc_flag :
    Try(read_string(bytes, desc_flag.pos, account_len.val), LAMBDA account :
    Let(IF side_byte.val = 0 THEN "Credit" ELSE "Debit", LAMBDA side :
    IF desc_flag.val = 0
    THEN [ok |-> TRUE, pos |-> account.pos,
          val |-> EntryLine(account.val, amount.val, side, None)]
    ELSE
    Try(read_num(bytes, account.pos, 4, FALSE), LAMBDA desc_len :
    Try(read_string(bytes, desc_len.pos, desc_len.val), LAMBDA desc :
    [ok |-> TRUE, pos |-> desc.pos - 4,
     val |-> EntryLine(account.val, amount.val, side, Some(desc.val))]))))))))

\* EntryLine::from_bytes of entry.rs: the line, and in pos the bytes consumed
EntryLine_from_bytes(bytes) ==
    IF Len(bytes) < LineHeader THEN Err("UnexpectedEof") ELSE
    Try(read_num(bytes, 0, 4, FALSE), LAMBDA account_len :
    Try(read_num(bytes, account_len.pos, 8, FALSE), LAMBDA amount :
    Try(match_flag(bytes, amount.pos), LAMBDA side_byte :
    Try(match_flag(bytes, side_byte.pos), LAMBDA desc_flag :
    Try(read_string(bytes, desc_flag.pos, account_len.val), LAMBDA account :
    Let(IF side_byte.val = 0 THEN "Credit" ELSE "Debit", LAMBDA side :
    IF desc_flag.val = 0
    THEN [ok |-> TRUE, pos |-> account.pos,
          val |-> EntryLine(account.val, amount.val, side, None)]
    ELSE
    Try(read_num(bytes, account.pos, 4, FALSE), LAMBDA desc_len :
    Try(read_string(bytes, desc_len.pos, desc_len.val), LAMBDA desc :
    [ok |-> TRUE, pos |-> desc.pos,
     val |-> EntryLine(account.val, amount.val, side, Some(desc.val))]))))))))

RECURSIVE lines_from_bytes(_, _, _, _)
\* the loop 'for i in 0..lines_count' of Entry::from_bytes: an error of a
\* line becomes InvalidData (map_err)
lines_from_bytes(bytes, cursor, count, lines) ==
    IF count = 0 THEN [ok |-> TRUE, val |-> lines, pos |-> cursor]
    ELSE Let(EntryLine_from_bytes(slice_from(bytes, cursor)), LAMBDA line :
             IF ~line.ok THEN Err("InvalidData")
             ELSE lines_from_bytes(bytes, cursor + line.pos, count - 1,
                                   Append(lines, line.val)))

\* Entry::from_bytes of entry.rs
Entry_from_bytes(bytes) ==
    IF bytes = <<>> THEN Err("InvalidInput")
    ELSE IF bytes[1] = 0
    THEN Try(read_num(bytes, 1, 8, FALSE), LAMBDA year : Ok(Origin_rs(year.val)))
    ELSE IF bytes[1] = 1
    THEN
    Try(read_num(bytes, 1, 4, FALSE), LAMBDA name_len :
    Try(read_num(bytes, name_len.pos, 4, FALSE), LAMBDA desc_len :
    Try(read_string(bytes, desc_len.pos, name_len.val), LAMBDA name :
    Try(read_string(bytes, name.pos, desc_len.val), LAMBDA description :
    Try(read_num(bytes, description.pos, 4, FALSE), LAMBDA lines_count :
    Try(lines_from_bytes(bytes, lines_count.pos, lines_count.val, <<>>), LAMBDA lines :
    Try(read_string(bytes, lines.pos, LegacyWidth), LAMBDA previous_entry :
    Ok(Entry_create_new(name.val, description.val, lines.val,
                        previous_entry.val)))))))))
    ELSE Err("InvalidData")

\* the entries the codec of entry.rs is applied to: previous_entry is a digest
EntriesRs ==
    {Origin_rs(year) : year \in {0, 2025}}
    \cup {Entry_create_new(text[1], text[2], lines, previous) :
            text \in CodecTexts,
            lines \in SeqsUpTo(LinePool, MaxLines),
            previous \in {Digest(1)}}

InitRs ==
    /\ dir = FALSE
    /\ objdir = FALSE
    /\ head_file = NoFile
    /\ objects = EmptyMap
    /\ open = "none"
    /\ head = NoEntry
    /\ head_hash = <<>>
    /\ hash_map = EmptyMap
    /\ pc = "idle"
    /\ pending = NoPending
    /\ sha = EmptyMap
    /\ added = <<>>
    /\ written = <<>>
    /\ result = [op |-> "none"]
    /\ input \in EntriesRs

\* entry.serialize(&mut buffer) of entry.rs
Entry_rs_serialize ==
    /\ result' = [op |-> "serialize", out |-> entry_rs_serialize(input)]
    /\ UNCHANGED <<fs, mem, pc, pending, sha, hist, input>>

\* Entry::from_bytes of the first kept bytes of what serialize wrote
Entry_rs_from_bytes ==
    /\ result.op = "serialize"
    /\ \E kept \in 0..Len(result.out) :
         result' = [op |-> "from_bytes", whole |-> result.out, kept |-> kept,
                    de |-> Entry_from_bytes(SubSeq(result.out, 1, kept))]
    /\ UNCHANGED <<fs, mem, pc, pending, sha, hist, input>>

\* bytes that follow a line and belong to nothing: none, one byte out of
\* every range, a length of four bytes
LineRests == {<<>>, <<255>>, <<1, 0, 0, 0>>}

\* EntryLine::from_bytes of line i of the entry as serialized, followed by
\* what Entry::serialize writes after it or by bytes of LineRests
EntryLine_rs_from_bytes ==
    /\ input.kind = "Entry"
    /\ \E i \in 1..Len(input.lines) :
       \E rest \in LineRests
                   \cup {Concat(lines_serialize(SubSeq(input.lines, i + 1,
                                                       Len(input.lines))))
                         \o input.previous_entry} :
         result' = [op |-> "line_from_bytes", at |-> i, line |-> input.lines[i],
                    rest |-> rest,
                    de |-> EntryLine_from_bytes(
                               Concat(EntryLine_serialize(input.lines[i])) \o rest)]
    /\ UNCHANGED <<fs, mem, pc, pending, sha, hist, input>>

NextRs ==
    \/ Entry_rs_serialize
    \/ Entry_rs_from_bytes
    \/ EntryLine_rs_from_bytes

\* the codec of entry.rs applied to every entry of the bounds, whole and cut
SpecRs == InitRs /\ [][NextRs]_vars

\* -------------------------------------------------- TeeWriter on its own

\* longest data a caller sends through one TeeWriter
MaxSent == 3

\* buffers a caller offers, every byte different
TeeBufs == {<<1>>, <<1, 2>>, <<1, 2, 3>>}

\* the two writers of a TeeWriter: each takes every byte, or at most one or
\* two bytes of a write
TeeSinks == {Greedy, Writer(FALSE, 1), Writer(FALSE, 2)}

\* TeeWriter::new(writer1, writer2); result.sent is the data the caller has
\* been told was written
InitTee ==
    /\ dir = FALSE
    /\ objdir = FALSE
    /\ head_file = NoFile
    /\ objects = EmptyMap
    /\ open = "none"
    /\ head = NoEntry
    /\ head_hash = <<>>
    /\ hash_map = EmptyMap
    /\ pc = "idle"
    /\ pending = NoPending
    /\ sha = EmptyMap
    /\ added = <<>>
    /\ written = <<>>
    /\ result = [op |-> "none", sent |-> <<>>]
    /\ input \in [writer1 : TeeSinks, writer2 : TeeSinks]

\* tee.write(buf): one call, the count returned
Tee_write ==
    /\ \E buf \in TeeBufs :
         /\ Len(result.sent) + Len(buf) <= MaxSent
         /\ \E r \in {TeeWriter_write(input, buf)} :
              /\ input' = r.tee
              /\ result' = [op |-> "write", buf |-> buf, n |-> r.n,
                            took1 |-> Len(r.tee.writer1.data) - Len(input.writer1.data),
                            took2 |-> Len(r.tee.writer2.data) - Len(input.writer2.data),
                            sent |-> result.sent \o SubSeq(buf, 1, r.n)]
    /\ UNCHANGED <<fs, mem, pc, pending, sha, hist>>

\* tee.write_all(buf)
Tee_write_all ==
    /\ \E buf \in TeeBufs :
         /\ Len(result.sent) + Len(buf) <= MaxSent
         /\ \E r \in {write_all(input, buf)} :
              /\ r.ok
              /\ input' = r.tee
              /\ result' = [op |-> "write_all", buf |-> buf,
                            sent |-> result.sent \o buf]
    /\ UNCHANGED <<fs, mem, pc, pending, sha, hist>>

NextTee ==
    \/ Tee_write
    \/ Tee_write_all

\* a TeeWriter over every pair of writers, written to by write and write_all
SpecTee == InitTee /\ [][NextTee]_vars

\* --------------------------------------------------------- the properties

Last(s) == s[Len(s)]

\* the entry decoded from the stored object h
stored(h) == deserialize(objects[h])

\* the position of h among the object files, in the order they were created
created_at(h) == CHOOSE i \in 1..Len(written) : written[i] = h

RECURSIVE chain_from(_, _)
\* the hashes met following previous_entry from the stored object h, for at
\* most fuel links, ending with NoFile when a link names no stored object
chain_from(h, fuel) ==
    IF h \notin DOMAIN objects \/ ~stored(h).ok THEN <<NoFile>>
    ELSE IF stored(h).val.kind = "Origin" \/ fuel = 0 THEN <<h>>
    ELSE <<h>> \o chain_from(stored(h).val.previous_entry, fuel - 1)

\* C1: a log listed from HEAD after n successful add_entry calls visits the n
\* Records, latest first, then the Origin; each Record visited links to the
\* HEAD hash that was current when it was added.
C1_ChainIntegrity ==
    (result.op = "show_log" /\ result.ref = HEAD) =>
        /\ result.ok
        /\ Len(result.visited) = Len(added) + 1
        /\ Len(result.out) = Len(added) + 1
        /\ \A i \in 1..Len(added) :
             /\ result.visited[i] = added[Len(added) + 1 - i].hash
             /\ stored(result.visited[i]).val = added[Len(added) + 1 - i].entry
             /\ stored(result.visited[i]).val.previous_entry
                    = added[Len(added) + 1 - i].before
             /\ result.out[i] = show_short(added[Len(added) + 1 - i].entry)
             /\ result.out[i].kind = "Entry"
        /\ stored(Last(result.visited)).val.kind = "Origin"
        /\ Last(result.out).kind = "Origin"

\* a log listed from HEAD, by the Ledger that init made, after MaxAdds add_entry
C1_Witness ==
    /\ result.op = "show_log" /\ result.ref = HEAD
    /\ open = "init"
    /\ Len(added) = MaxAdds
    /\ Len(result.visited) = MaxAdds + 1

\* C2: for every valid entry, deserialize of the bytes serialize wrote is the
\* entry, equal in every field.
C2_RoundTrip ==
    result.op = "deserialize" => result.de = Ok(input)

\* a Record with a line without and a line with a description, decoded
C2_Witness ==
    /\ result.op = "deserialize"
    /\ result.de.ok
    /\ input.kind = "Entry"
    /\ input.lines = <<LineNone, LineSome>>

\* C3: whenever the HEAD file exists, it names an object file
\* whose bytes are stored and decode (after every single storage write of
\* init and add_entry).
C3_DataBeforePointer ==
    head_file # NoFile =>
        /\ objdir
        /\ head_file \in DOMAIN objects
        /\ stored(head_file).ok

\* C4: every stored Record links to an object stored before it, the links
\* from any stored object end at the Origin without meeting an object twice,
\* and the store holds one Origin.
C4_ChainInvariant ==
    /\ \A h \in DOMAIN objects :
         /\ stored(h).ok
         /\ h \in Range(written)
         /\ stored(h).val.kind = "Entry" =>
              /\ stored(h).val.previous_entry \in DOMAIN objects
              /\ created_at(stored(h).val.previous_entry) < created_at(h)
         /\ LET chain == chain_from(h, Cardinality(DOMAIN objects)) IN
              /\ Last(chain) # NoFile
              /\ stored(Last(chain)).val.kind = "Origin"
              /\ \A i, j \in 1..Len(chain) : chain[i] = chain[j] => i = j
    /\ objects # EmptyMap =>
         Cardinality({h \in DOMAIN objects : stored(h).val.kind = "Origin"}) = 1

\* a store of MaxAdds Records behind the Origin
C4_Witness ==
    /\ Cardinality(DOMAIN objects) = MaxAdds + 1
    /\ Len(added) = MaxAdds
    /\ Len(chain_from(head_hash, MaxAdds + 1)) = MaxAdds + 1

\* C5: every serialize of one entry returns the same hash, whatever the
\* output and however many bytes it takes of each write; short_hash is the
\* start of that hash.
C5_HashDeterminism ==
    /\ Cardinality(result.hashes) <= 1
    /\ result.op = "short_hash" =>
         \A hash \in result.hashes : starts_with(hash, result.short)

\* an entry serialized into every output, the last one a byte at a time
C5_Witness ==
    /\ result.op = "serialize"
    /\ result.output = Writer(FALSE, 1)
    /\ result.outputs = Sinks
    /\ input.kind = "Entry"

\* C6: every object file is named by the hash serialize returned for its
\* bytes, and serializing the entry decoded from it returns that name again.
C6_ContentAddressing ==
    /\ \A h \in DOMAIN objects :
         /\ stored(h).ok
         /\ digest_of(serialize(stored(h).val, Greedy).hashed) = h
         /\ serialize(stored(h).val, Greedy).out = objects[h]
    /\ pc = "add_object" =>
         /\ pending.hash \in DOMAIN objects
         /\ objects[pending.hash] = pending.buffer
    /\ \A i \in 1..Len(added) : added[i].hash \in DOMAIN objects

\* a store with the Origin and MaxAdds Records, one of them with lines
C6_Witness ==
    /\ Cardinality(DOMAIN objects) = MaxAdds + 1
    /\ \E h \in DOMAIN objects :
         /\ stored(h).ok
         /\ stored(h).val.kind = "Entry"
         /\ stored(h).val.lines # <<>>

\* the stored hashes that start with the reference r
matches(r) == {h \in DOMAIN objects : starts_with(h, r)}

\* C7: a reference other than HEAD that is a stored hash, or a non-empty
\* prefix of one stored hash and of no other, resolves to that hash.
C7_PrefixResolution ==
    (result.op = "from_ref" /\ result.ref # HEAD) =>
        \A h \in DOMAIN objects :
            (\/ result.ref = h
             \/ /\ result.ref # <<>>
                /\ starts_with(h, result.ref)
                /\ \A g \in DOMAIN objects \ {h} : ~starts_with(g, result.ref))
            => (result.ok /\ result.hash = h)

\* a proper prefix resolved in a store of several objects
C7_Witness ==
    /\ result.op = "from_ref" /\ result.ok
    /\ result.ref \notin {HEAD, <<>>}
    /\ Len(result.ref) < HashWidth
    /\ Cardinality(DOMAIN objects) > 1

\* C8: a reference that starts two or more stored hashes fails as ambiguous,
\* one that starts none fails as not found, the two errors differ, and a
\* reference that resolves is the start of the one hash returned.
C8_AmbiguousOrNotFound ==
    (result.op = "from_ref" /\ result.ref # HEAD) =>
        /\ Cardinality(matches(result.ref)) >= 2 =>
             (~result.ok /\ result.err = "TooManyLinks")
        /\ matches(result.ref) = {} =>
             (~result.ok /\ result.err = "NotFound")
        /\ result.ok => matches(result.ref) = {result.hash}

\* a non-empty prefix of several stored hashes, refused
C8_Witness ==
    /\ result.op = "from_ref"
    /\ ~result.ok /\ result.err = "TooManyLinks"
    /\ result.ref # <<>>

\* C9: a Ledger opened by from_dir after add_entry has the hash add_entry
\* returned as its HEAD hash, and its get_entry of the hash of any entry
\* added gives that entry, equal in every field.
C9_PersistenceRoundTrip ==
    /\ (result.op = "from_dir" /\ added # <<>>) =>
         (result.ok /\ result.hash = Last(added).hash /\ head_hash = Last(added).hash)
    /\ (result.op = "get_entry" /\ open = "from_dir") =>
         \A i \in 1..Len(added) :
            added[i].hash = result.hash =>
                (result.ok /\ result.entry = added[i].entry)

\* the first of MaxAdds entries, one with lines, fetched after from_dir
C9_Witness ==
    /\ result.op = "get_entry" /\ result.ok
    /\ open = "from_dir"
    /\ Len(added) = MaxAdds
    /\ result.hash = added[1].hash
    /\ result.entry.lines # <<>>

\* C10: from_ref("HEAD") is the Ledger's HEAD hash; once add_entry has
\* succeeded it is the hash the last add_entry returned, which differs from
\* the HEAD hash before that call.
C10_HeadResolution ==
    /\ (result.op = "from_ref" /\ result.ref = HEAD) =>
         /\ result.ok
         /\ result.hash = head_hash
         /\ added # <<>> => result.hash = Last(added).hash
    /\ result.op = "add_entry" =>
         /\ from_ref(HEAD) = Ok(result.hash)
         /\ result.hash # result.before
    /\ \A i \in 1..Len(added) : added[i].hash # added[i].before

\* HEAD resolved after MaxAdds add_entry calls
C10_Witness ==
    /\ result.op = "from_ref" /\ result.ref = HEAD
    /\ Len(added) = MaxAdds

\* what get_entry of hash h gives a Ledger that is open, whatever it has cached
fetched(h) == get_entry(hash_map, h)

chain(h) == chain_from(h, Cardinality(DOMAIN objects))

\* C12: show_log from a stored hash ends, having visited that entry, then
\* each predecessor by previous_entry, the Origin last and nothing after it:
\* every walk, whenever it is made, gives the chain stored behind its hash,
\* and no step, add_entry included, changes a stored object, so a repeated
\* walk gives the same sequence.
C12_LogWalk ==
    /\ [](result.op = "show_log" =>
            /\ result.ok
            /\ result.hash \in DOMAIN objects
            /\ result.visited = chain(result.hash)
            /\ result.visited[1] = result.hash
            /\ stored(Last(result.visited)).val.kind = "Origin"
            /\ \A i \in 1..(Len(result.visited) - 1) :
                 /\ stored(result.visited[i]).val.kind = "Entry"
                 /\ result.visited[i + 1] = stored(result.visited[i]).val.previous_entry
            /\ Len(result.out) = Len(result.visited)
            /\ \A i \in 1..Len(result.out) :
                 result.out[i] = show_short(stored(result.visited[i]).val))
    /\ [][\A h \in DOMAIN objects :
            h \in DOMAIN objects' /\ objects'[h] = objects[h]]_vars

\* a log listed from an entry behind HEAD, by a reference that is not HEAD,
\* with entries cached by an earlier walk
C12_Witness ==
    /\ result.op = "show_log" /\ result.ok
    /\ result.ref # HEAD
    /\ result.hash # head_hash
    /\ Len(result.visited) = MaxAdds
    /\ head_hash \in DOMAIN hash_map

\* C13: a write returns the smaller of the counts the two writers took, and
\* data written with write_all reaches both writers as the caller sent it,
\* no byte lost or repeated, whichever writer takes fewer bytes than offered.
C13_TeeWriter ==
    /\ result.op = "write" => result.n = Min(result.took1, result.took2)
    /\ result.op = "write_all" =>
         /\ input.writer1.data = result.sent
         /\ input.writer2.data = result.sent

\* the lines that differ from line l in one field
differing_lines(l) ==
    { [l EXCEPT !.account = @ \o <<66>>],
      [l EXCEPT !.amount = @ + 1],
      [l EXCEPT !.side = IF @ = "Debit" THEN "Credit" ELSE "Debit"],
      [l EXCEPT !.description = IF @.some THEN None ELSE Some(<<>>)],
      [l EXCEPT !.description = IF @.some THEN Some(@.val \o <<66>>) ELSE Some(<<66>>)] }

\* the entries that differ from e in the variant or in one field; a byte
\* moved from the description to the name and a line more or less are among
\* them, and so is a timestamp later by a nanosecond
differing(e) ==
    { [e EXCEPT !.timestamp.secs = @ + 1],
      [e EXCEPT !.timestamp.nanos = @ + 1] }
    \cup
    IF e.kind = "Origin"
    THEN { [e EXCEPT !.year = @ + 1],
           Record(e.timestamp, 0, <<>>, <<>>, <<>>, Digest(1)) }
    ELSE { [e EXCEPT !.event_date = @ + 1],
           [e EXCEPT !.name = @ \o <<66>>],
           [e EXCEPT !.description = @ \o <<66>>],
           [e EXCEPT !.lines = Append(@, LineNone)],
           [e EXCEPT !.previous_entry = Digest(2)],
           Origin(e.timestamp, 0) }
         \cup (IF e.description = <<>> THEN {}
               ELSE { [e EXCEPT !.name = @ \o <<Head(e.description)>>,
                                !.description = Tail(@)] })
         \cup (IF e.lines = <<>> THEN {}
               ELSE { [e EXCEPT !.lines = Tail(@)] }
                    \cup { [e EXCEPT !.lines[1] = l] : l \in differing_lines(e.lines[1]) }
                    \cup { [e EXCEPT !.lines[Len(e.lines)] = l] :
                             l \in differing_lines(e.lines[Len(e.lines)]) })

\* the hashes serialize may return for e, given the hashes returned so far
hashes_of(e) == digests(serialize(e, Greedy).hashed)

\* C14 as stated: the hash serialize returned for an entry is not returned
\* for any entry that differs from it in the variant or in any field, the
\* timestamp included.
C14_HashUniqueness_AnyField ==
    result.op = "serialize" =>
        \A other \in differing(input) :
            other # input /\ result.hash \notin hashes_of(other)

\* C14, for timestamps of whole seconds: the hash serialize returned for an
\* entry is not returned for any entry that differs from it in the variant
\* or in any field, both timestamps being whole seconds.
C14_HashUniqueness ==
    result.op = "serialize" =>
        \A other \in {o \in differing(input) : o.timestamp.nanos = 0} :
            other # input /\ result.hash \notin hashes_of(other)

\* a Record with a described and an undescribed line, hashed
C14_Witness ==
    /\ result.op = "serialize"
    /\ input.kind = "Entry"
    /\ input.lines = <<LineSome, LineNone>>
    /\ input.description # <<>>
    /\ input.timestamp.nanos = 0

\* C15: a step of init taken where a chain exists (the HEAD file or an
\* object is there) is the one that ends init with an error, and it leaves
\* the HEAD file and every object as they were.
C15_InitRefused ==
    [][(/\ pc = "idle" /\ open = "none"
        /\ head_file # NoFile \/ objects # EmptyMap
        /\ pc' # "idle" \/ result'.op = "init")
       => /\ result' = [op |-> "init", ok |-> FALSE, err |-> "DirectoryNotEmpty"]
          /\ pc' = "idle" /\ open' = "none"
          /\ head_file' = head_file
          /\ objects' = objects
          /\ dir' = dir /\ objdir' = objdir]_vars

\* init refused where a chain of MaxAdds Records is stored
C15_Witness ==
    /\ result.op = "init" /\ ~result.ok
    /\ head_file \in DOMAIN objects
    /\ Len(chain(head_file)) = MaxAdds + 1

\* C16: the step that ends add_entry with an error leaves the HEAD file and
\* the Ledger's HEAD hash and HEAD entry as they were; a failed add_entry
\* changes no object that was stored, and an object it has added is not
\* named by the HEAD file.
C16_FailedAppend ==
    [][(result' = add_entry_err /\ pc' = "idle")
       => /\ head_file' = head_file
          /\ head_hash' = head_hash
          /\ head' = head
          /\ open' = open
          /\ \A h \in DOMAIN objects :
               h \in DOMAIN objects' /\ objects'[h] = objects[h]
          /\ Cardinality(DOMAIN objects' \ DOMAIN objects) <= 1
          /\ head_file' \notin DOMAIN objects' \ DOMAIN objects]_vars

C18_TruncatedInput ==
    (result.op = "from_bytes" /\ result.kept < Len(result.whole))
        => result.de = Err("UnexpectedEof")

\* C19: Entry::deserialize of a serialized entry whose discriminant, or the
\* side byte or description flag of any of its lines, was replaced by a byte
\* that is neither 0x00 nor 0x01 fails with InvalidData.
C19_EnumBytes ==
    (result.op = "deserialize" /\ result.byte \in BadBytes)
        => result.de = Err("InvalidData")

C19_Witness ==
    /\ result.op = "deserialize" /\ result.byte \in BadBytes
    /\ result.at.what = "desc_flag" /\ result.at.line = MaxLines
    /\ result.was = 1
    /\ result.gz
    /\ ~result.de.ok

\* C20: a Record whose previous_entry is the 64-character hash of its
\* predecessor decodes from the bytes stored for it to a Record whose
\* previous_entry is that hash, character for character.
C20_PointerWidth ==
    (result.op = "from_bytes" /\ result.kept = Len(result.whole)
       /\ input.kind = "Entry")
        => /\ result.de.ok
           /\ Len(result.de.val.previous_entry) = HashWidth
           /\ result.de.val.previous_entry = input.previous_entry

\* C21: EntryLine::from_bytes of a serialized line followed by any bytes
\* returns that line and, as the bytes consumed, the length of the line's
\* serialized form; Entry::from_bytes of a serialized Record returns every
\* line as written and reads previous_entry from the byte after the last line.
C21_CursorArithmetic ==
    /\ result.op = "line_from_bytes"
         => /\ result.de.ok
            /\ result.de.val = result.line
            /\ result.de.pos = Len(Concat(EntryLine_serialize(result.line)))
    /\ (result.op = "from_bytes" /\ result.kept = Len(result.whole)
          /\ input.kind = "Entry")
         => /\ result.de.ok
            /\ result.de.val.name = input.name
            /\ result.de.val.description = input.description
            /\ result.de.val.lines = input.lines
            /\ result.de.val.previous_entry
                 = SubSeq(result.whole,
                          Len(result.whole) - Len(input.previous_entry) + 1,
                          Len(result.whole) - Len(input.previous_entry)
                            + LegacyWidth)

C21_Witness ==
    /\ result.op = "line_from_bytes"
    /\ result.line.description.some
    /\ result.at = 1 /\ Len(input.lines) = MaxLines
    /\ Len(result.rest) > HashWidth
    /\ result.de.ok

\* C22: whenever a Ledger exists and none of its operations is under way
\* (after init, after from_dir, after an add_entry that succeeded or failed),
\* its HEAD hash is the content of the HEAD file, and its HEAD entry is the
\* entry the stored object of that hash decodes to.
C22_HeadAgreement ==
    (pc = "idle" /\ open # "none")
        => /\ head_hash = head_file
           /\ head_hash \in DOMAIN objects
           /\ stored(head_hash) = Ok(head)

\* the log walk from the hash the HEAD file holds, by a Ledger with an empty
\* cache
walk_from_head ==
    show_log_from(EmptyMap, head_file, <<>>, <<>>, Cardinality(DOMAIN objects) + 1)

\* C23: while two processes each hold a Ledger on the directory, whatever the
\* order of their storage writes, the HEAD file names a stored object, every
\* stored Record's previous_entry names a stored object, and the log walk
\* from the HEAD file ends at the Origin.
C23_TwoWriters ==
    (open # "none" /\ input.open)
        => /\ head_file \in DOMAIN objects
           /\ \A h \in DOMAIN objects :
                /\ stored(h).ok
                /\ stored(h).val.kind = "Entry"
                     => stored(h).val.previous_entry \in DOMAIN objects
           /\ walk_from_head.ok
           /\ stored(Last(walk_from_head.visited)).val.kind = "Origin"

C23_Witness ==
    /\ open # "none" /\ input.open
    /\ pc = "idle" /\ input.pc = "idle"
    /\ Len(added) = MaxAdds
    /\ head_file = input.head_hash
    /\ head_hash # head_file
    /\ stored(head_hash).val.kind = "Entry"
    /\ head_hash \notin Range(walk_from_head.visited)

====
